---- MODULE Spec2Model ----
(***************************************************************************)
(* Model of the hierarchical data aggregation and reshaping engine of the  *)
(* Dashboard Builder:                                                      *)
(*   - computeKpis  : the kpiData callback of GlobalKPICards               *)
(*                    (src/components/GlobalKPICards.tsx)                  *)
(*   - rebuildTree  : extractValueData / extractVolumeData                 *)
(*                    (src/lib/dashboard-generator.ts)                     *)
(*   - rebuildStructure : extractSegmentationData                          *)
(*                    (src/lib/dashboard-generator.ts)                     *)
(* JavaScript values are modelled as follows: the falsy values of a field  *)
(* are one marker per field (NoSeg, NoLevel, NoCagr, Undefined); arrays    *)
(* are sequences; a Map is a sequence of [key, val] entries in insertion   *)
(* order; a working set of records is the sequence of their positions in   *)
(* the dataset (filter keeps object identity and order); currency and unit *)
(* of the summary are echoed metadata and are left out.                    *)
(***************************************************************************)
EXTENDS Integers, Sequences, FiniteSets, TLC

VARIABLES
    data,                 \* useDashboardStore().data: NoData or the loaded data
    filters,              \* useDashboardStore().filters
    selectedGeographies,  \* local `selectedGeographies` of kpiData
    targetSegmentType,    \* local `targetSegmentType`
    globalRecords,        \* local `globalRecords` (positions in the dataset)
    leafRecords,          \* local `leafRecords`   (positions in the dataset)
    fallbackTaken,        \* TRUE iff lines 151-152 of kpiData were executed
    kpiData,              \* the value returned by the kpiData callback
    pc,                   \* position of the kpiData invocation
    collection,           \* "value": extractValueData, "volume": extractVolumeData
    treeRecords,          \* the records of geography_segment_matrix iterated so far
    tree,                 \* local `result` of extractValueData / extractVolumeData
    treeWarned,           \* TRUE iff console.warn was called (lines 189, 259)
    treePc,               \* position of the extract invocation
    dimensions,           \* data.dimensions: all_geographies and the segment dimensions
    structure,            \* local `result` of extractSegmentationData
    structGeo,            \* position of the loop over all_geographies (0: not entered)
    structSeg,            \* position of the loop over Object.entries(segments)
    structWarnings,       \* the kinds of console.warn issued (lines 306, 315)
    structPc,             \* position of the extractSegmentationData invocation
    objectPrototype,      \* Object.prototype of the JavaScript realm and what hangs off it
    firstKpiData,         \* <<>>, or <<what the first kpiData invocation returned>>
    firstTree,            \* <<>>, or <<the outcome of the first extract invocation>>
    treeIdx,              \* records iterated by the second extract invocation
    firstStructure        \* <<>>, or <<the outcome of the first extractSegmentationData>>

kpiVars == <<data, filters, selectedGeographies, targetSegmentType,
             globalRecords, leafRecords, fallbackTaken, kpiData, pc>>
treeVars == <<collection, treeRecords, tree, treeWarned, treePc>>
structVars == <<dimensions, structure, structGeo, structSeg, structWarnings, structPc>>
againVars == <<firstKpiData, firstTree, treeIdx, firstStructure>>
vars == <<kpiVars, treeVars, structVars, objectPrototype, againVars>>

(***************************************************************************)
(* Bounds of the model                                                     *)
(***************************************************************************)
MaxRecords == 2
MaxLevel == 2
MaxDimensions == 2

(***************************************************************************)
(* Program constants and JavaScript falsy markers                          *)
(***************************************************************************)
NoSeg == ""
NoLevel == 0
BigLevel == 999
MAX_SEGMENT_DEPTH == 10
MAX_HIERARCHY_DEPTH == 20
DefaultStartYear == 2024
DefaultEndYear == 2032

Range(s) == {s[i] : i \in 1..Len(s)}
SeqsUpTo(S, n) == UNION {[1..k -> S] : k \in 0..n}
Indices(s) == [i \in 1..Len(s) |-> i]

RECURSIVE SetMin(_)
SetMin(S) == LET x == CHOOSE y \in S : TRUE
             IN  IF S = {x} THEN x
                 ELSE LET m == SetMin(S \ {x}) IN IF x < m THEN x ELSE m
RECURSIVE SetMax(_)
SetMax(S) == LET x == CHOOSE y \in S : TRUE
             IN  IF S = {x} THEN x
                 ELSE LET m == SetMax(S \ {x}) IN IF x > m THEN x ELSE m

(***************************************************************************)
(* computeKpis: GlobalKPICards.kpiData                                     *)
(***************************************************************************)

\* filters.segmentType || segmentTypes[0] || null
TargetSegmentType(f, d) ==
    IF f.segmentType # NoSeg THEN f.segmentType
    ELSE IF Len(d.segmentTypes) > 0 THEN d.segmentTypes[1]
    ELSE NoSeg

\* filters.dataType === 'value' ? value matrix : volume matrix
Dataset(f, d) == IF f.dataType = "value" THEN d.value ELSE d.volume

IsGeographyMode(f) == f.viewMode = "geography-mode"

\* the predicate of dataset.filter at lines 48-59
PassesFilter(r, sel, target, isGeo) ==
    IF Len(sel) > 0 /\ r.geography \notin Range(sel) THEN FALSE
    ELSE IF ~isGeo /\ target # NoSeg /\ r.segment_type # target THEN FALSE
    ELSE TRUE

GlobalRecords(ds, sel, target, isGeo) ==
    SelectSeq(Indices(ds), LAMBDA i : PassesFilter(ds[i], sel, target, isGeo))

\* record.aggregation_level || 999
LevelOr999(r) == IF r.aggregation_level = NoLevel THEN BigLevel ELSE r.aggregation_level

\* Map.has / Map.get(k).push(i) / Map.set(k, [i]) on an insertion-ordered Map
MapHas(m, k) == \E e \in 1..Len(m) : m[e].key = k
MapGet(m, k) == m[CHOOSE e \in 1..Len(m) : m[e].key = k].val
MapSet(m, k, v) ==
    IF MapHas(m, k)
    THEN [e \in 1..Len(m) |-> IF m[e].key = k THEN [key |-> k, val |-> v] ELSE m[e]]
    ELSE Append(m, [key |-> k, val |-> v])

\* lines 65-71 and 77-83: group positions by a field of their record
RECURSIVE GroupBy(_, _, _, _)
GroupBy(ds, recs, field, m) ==
    IF recs = <<>> THEN m
    ELSE LET i == Head(recs)
             k == ds[i][field]
             m1 == IF MapHas(m, k) THEN m ELSE MapSet(m, k, <<>>)
         IN  GroupBy(ds, Tail(recs), field, MapSet(m1, k, Append(MapGet(m1, k), i)))

\* mutant: without a leaf and a level-1 record every record is used
RecordsToUseEveryLevel(ds, firstSegTypeRecords) ==
    LET leaf == SelectSeq(firstSegTypeRecords, LAMBDA i : ~ds[i].is_aggregated)
        lvl1 == SelectSeq(firstSegTypeRecords, LAMBDA i : ds[i].aggregation_level = 1)
    IN  IF Len(leaf) # 0 THEN leaf
        ELSE IF Len(lvl1) # 0 THEN lvl1
        ELSE firstSegTypeRecords

\* lines 88-96: prefer leaf records, then level 1, then the lowest level
RecordsToUse(ds, firstSegTypeRecords) ==
    LET leaf == SelectSeq(firstSegTypeRecords, LAMBDA i : ~ds[i].is_aggregated)
        lvl1 == SelectSeq(firstSegTypeRecords, LAMBDA i : ds[i].aggregation_level = 1)
        minLevel == SetMin({LevelOr999(ds[i]) : i \in Range(firstSegTypeRecords)})
    IN  IF Len(leaf) # 0 THEN leaf
        ELSE IF Len(lvl1) # 0 THEN lvl1
        ELSE IF Len(firstSegTypeRecords) > 0
             THEN SelectSeq(firstSegTypeRecords, LAMBDA i : LevelOr999(ds[i]) = minLevel)
             ELSE <<>>

\* mutant: the preference for leaf records comes before the segment type
GeographyRecordsLeafFirst(ds, geoRecords) ==
    LET leaf == SelectSeq(geoRecords, LAMBDA i : ~ds[i].is_aggregated)
        bySegmentType == GroupBy(ds, IF Len(leaf) # 0 THEN leaf ELSE geoRecords,
                                 "segment_type", <<>>)
        firstSegTypeRecords == IF Len(bySegmentType) > 0 THEN bySegmentType[1].val ELSE <<>>
    IN  RecordsToUse(ds, firstSegTypeRecords)

\* lines 75-99: one geography's contribution
GeographyRecords(ds, geoRecords) ==
    LET bySegmentType == GroupBy(ds, geoRecords, "segment_type", <<>>)
        firstSegTypeRecords == IF Len(bySegmentType) > 0 THEN bySegmentType[1].val ELSE <<>>
    IN  RecordsToUse(ds, firstSegTypeRecords)

RECURSIVE ConcatGeographies(_, _)
ConcatGeographies(ds, byGeo) ==
    IF byGeo = <<>> THEN <<>>
    ELSE GeographyRecords(ds, Head(byGeo).val) \o ConcatGeographies(ds, Tail(byGeo))

\* lines 63-102
DeduplicatedRecords(ds, recs) ==
    ConcatGeographies(ds, GroupBy(ds, recs, "geography", <<>>))

\* lines 123-131: geoMap keyed by `${geography}::${segment_type}`
PairKey(r) == <<r.geography, r.segment_type>>

\* mutant: the first record of a pair is kept whatever the levels
RECURSIVE GeoMapKeepingFirst(_, _, _)
GeoMapKeepingFirst(ds, recs, m) ==
    IF recs = <<>> THEN m
    ELSE LET i == Head(recs)
             key == PairKey(ds[i])
         IN  GeoMapKeepingFirst(ds, Tail(recs),
                                IF ~MapHas(m, key) THEN MapSet(m, key, i) ELSE m)

RECURSIVE GeoMap(_, _, _)
GeoMap(ds, recs, m) ==
    IF recs = <<>> THEN m
    ELSE LET i == Head(recs)
             key == PairKey(ds[i])
             replace == IF ~MapHas(m, key) THEN TRUE
                        ELSE ds[i].aggregation_level # NoLevel
                             /\ ds[i].aggregation_level < LevelOr999(ds[MapGet(m, key)])
         IN  GeoMap(ds, Tail(recs), IF replace THEN MapSet(m, key, i) ELSE m)

MapValues(m) == [e \in 1..Len(m) |-> m[e].val]

\* mutant: the preference for leaf records is dropped
LeafRecordsWithoutPreference(ds, recs, isGeo) == recs

\* lines 106-133
LeafRecords(ds, recs, isGeo) ==
    IF isGeo THEN recs
    ELSE LET leaf == SelectSeq(recs, LAMBDA i : ds[i].is_aggregated = FALSE)
             lvl1 == SelectSeq(recs, LAMBDA i : ds[i].aggregation_level = 1)
         IN  IF Len(leaf) # 0 THEN leaf
             ELSE IF Len(lvl1) # 0 THEN lvl1
             ELSE MapValues(GeoMap(ds, recs, <<>>))

\* mutant: the fallback forgets the segment-type filter
FallbackRecordsAnySegmentType(ds, target) ==
    LET leaf == SelectSeq(Indices(ds), LAMBDA i : ds[i].is_aggregated = FALSE)
        lvl1 == SelectSeq(Indices(ds), LAMBDA i : ds[i].aggregation_level = 1)
    IN  IF Len(leaf) # 0 THEN leaf
        ELSE IF Len(lvl1) # 0 THEN lvl1
        ELSE Indices(ds)

\* lines 138-148
FallbackRecords(ds, target) ==
    LET allRecordsForSegmentType ==
            SelectSeq(Indices(ds), LAMBDA i : ds[i].segment_type = target)
        leaf == SelectSeq(allRecordsForSegmentType, LAMBDA i : ds[i].is_aggregated = FALSE)
        lvl1 == SelectSeq(allRecordsForSegmentType, LAMBDA i : ds[i].aggregation_level = 1)
    IN  IF Len(leaf) # 0 THEN leaf
        ELSE IF Len(lvl1) # 0 THEN lvl1
        ELSE allRecordsForSegmentType

\* time_series[year]: a property key is a string, so the numeric and the string
\* form of a year name one property
TsGet(ts, year) == IF ToString(year) \in DOMAIN ts THEN ts[ToString(year)] ELSE 0

\* record.time_series[y] || record.time_series[String(y)] || 0
YearValue(r, year) ==
    LET a == TsGet(r.time_series, year)
        b == TsGet(r.time_series, year)
    IN  IF a # 0 THEN a ELSE IF b # 0 THEN b ELSE 0

\* mutant: every value is converted from units to millions
RECURSIVE MarketSizeConverted(_, _, _, _)
MarketSizeConverted(ds, recs, year, acc) ==
    IF recs = <<>> THEN acc
    ELSE MarketSizeConverted(ds, Tail(recs), year,
                             acc + (YearValue(ds[Head(recs)], year) \div 1000000))

\* lines 171-180: the forEach accumulation
RECURSIVE MarketSize(_, _, _, _)
MarketSize(ds, recs, year, acc) ==
    IF recs = <<>> THEN acc
    ELSE MarketSize(ds, Tail(recs), year, acc + YearValue(ds[Head(recs)], year))

\* lines 183-186: (Math.pow(end / start, 1 / years) - 1) * 100, kept symbolic
Cagr(start, end, years) ==
    IF start > 0 /\ years > 0
    THEN [zero |-> FALSE, num |-> end, den |-> start, root |-> years]
    ELSE [zero |-> TRUE, num |-> 0, den |-> 1, root |-> 1]

\* mutant: the guard is `marketSizeStart !== 0`
GrowthPercentageNonZeroGuard(start, end) ==
    IF start # 0
    THEN [num |-> (end - start) * 100, den |-> start]
    ELSE [num |-> 0, den |-> 1]

\* lines 190-192: an exact fraction num / den
GrowthPercentage(start, end) ==
    IF start > 0
    THEN [num |-> (end - start) * 100, den |-> start]
    ELSE [num |-> 0, den |-> 1]

\* lines 213-219
GeographyLabel(f) ==
    LET actualSelectedGeographies == IF Len(f.geographies) > 0 THEN f.geographies ELSE <<>>
        n == Len(actualSelectedGeographies)
    IN  IF n = 0 THEN "All Geographies"
        ELSE IF n = 1 THEN actualSelectedGeographies[1]
        ELSE ToString(n) \o " Geographies (" \o actualSelectedGeographies[1] \o ", "
             \o actualSelectedGeographies[2] \o (IF n > 2 THEN "..." ELSE "") \o ")"

\* line 220
SegmentTypeLabel(target) == IF target # NoSeg THEN target ELSE "All Segments"

NullResult == [isNull |-> TRUE]

\* parseInt on the property keys of the model: the leading digits are read and
\* what follows them is dropped; a key outside the domain gives NaN
parseInt ==
    ("2024" :> 2024) @@ ("2025" :> 2025) @@ ("2030" :> 2030) @@ ("2032" :> 2032)
    @@ ("2026Q1" :> 2026)

\* line 164: Object.keys(sampleTimeSeries).map(y => parseInt(y)).filter(y => !isNaN(y))
AvailableYears(sampleTimeSeries) ==
    {parseInt[y] : y \in DOMAIN sampleTimeSeries \cap DOMAIN parseInt}

\* line 15: const [startYear, endYear] = filters.yearRange || [2024, 2032]
FilterYearRange(f) ==
    IF f.yearRange = <<>> THEN <<DefaultStartYear, DefaultEndYear>> ELSE f.yearRange

\* mutant: the years are those of the year range of the filters
SummaryOverFilterYears(ds, recs, f, target) ==
    LET actualStartYear == FilterYearRange(f)[1]
        actualEndYear == FilterYearRange(f)[2]
        marketSizeStart == MarketSize(ds, recs, actualStartYear, 0)
        marketSizeEnd == MarketSize(ds, recs, actualEndYear, 0)
        years == actualEndYear - actualStartYear
    IN  [isNull |-> FALSE,
         marketSizeStart |-> marketSizeStart,
         marketSizeEnd |-> marketSizeEnd,
         startYear |-> actualStartYear,
         endYear |-> actualEndYear,
         cagr |-> Cagr(marketSizeStart, marketSizeEnd, years),
         absoluteGrowth |-> marketSizeEnd - marketSizeStart,
         growthPercentage |-> GrowthPercentage(marketSizeStart, marketSizeEnd),
         dataTypeLabel |-> IF f.dataType = "value" THEN "Market Size" ELSE "Market Volume",
         geographyLabel |-> GeographyLabel(f),
         segmentTypeLabel |-> SegmentTypeLabel(target),
         dataType |-> f.dataType]

\* lines 162-237
Summary(ds, recs, f, target) ==
    LET sampleTimeSeries == ds[recs[1]].time_series
        availableYears == AvailableYears(sampleTimeSeries)
        actualStartYear == IF availableYears # {} THEN SetMin(availableYears)
                           ELSE FilterYearRange(f)[1]
        actualEndYear == IF availableYears # {} THEN SetMax(availableYears)
                         ELSE FilterYearRange(f)[2]
        marketSizeStart == MarketSize(ds, recs, actualStartYear, 0)
        marketSizeEnd == MarketSize(ds, recs, actualEndYear, 0)
        years == actualEndYear - actualStartYear
    IN  [isNull |-> FALSE,
         marketSizeStart |-> marketSizeStart,
         marketSizeEnd |-> marketSizeEnd,
         startYear |-> actualStartYear,
         endYear |-> actualEndYear,
         cagr |-> Cagr(marketSizeStart, marketSizeEnd, years),
         absoluteGrowth |-> marketSizeEnd - marketSizeStart,
         growthPercentage |-> GrowthPercentage(marketSizeStart, marketSizeEnd),
         dataTypeLabel |-> IF f.dataType = "value" THEN "Market Size" ELSE "Market Volume",
         geographyLabel |-> GeographyLabel(f),
         segmentTypeLabel |-> SegmentTypeLabel(target),
         dataType |-> f.dataType]

\* mutant: steps 3 and 4 keep the leaf records only
WorkingSetOfLeaves(ds, sel, target, isGeo) ==
    SelectSeq(GlobalRecords(ds, sel, target, isGeo), LAMBDA i : ~ds[i].is_aggregated)

\* lines 48-133: steps 2-4, the working set before the fallback
WorkingSet(ds, sel, target, isGeo) ==
    LET filtered == GlobalRecords(ds, sel, target, isGeo)
        global == IF isGeo /\ Len(filtered) > 0
                  THEN DeduplicatedRecords(ds, filtered)
                  ELSE filtered
    IN  LeafRecords(ds, global, isGeo)

\* lines 12, 30-32, 39-42: the early returns
EarlyReturn(f, d) ==
    ~d.loaded \/ TargetSegmentType(f, d) = NoSeg \/ Len(Dataset(f, d)) = 0

\* mutant: a zero start total is reported as no data
ResultNullOnZero(ds, recs, f, target, early) ==
    IF early \/ Len(recs) = 0 THEN NullResult
    ELSE IF Summary(ds, recs, f, target).marketSizeStart = 0 THEN NullResult
    ELSE Summary(ds, recs, f, target)

\* lines 157-160 and 222-237: null or the summary
Result(ds, recs, f, target, early) ==
    IF early \/ Len(recs) = 0 THEN NullResult ELSE Summary(ds, recs, f, target)

(***************************************************************************)
(* One invocation of the kpiData callback (lines 11-238)                   *)
(***************************************************************************)
NoData == [loaded |-> FALSE, value |-> <<>>, volume |-> <<>>, segmentTypes |-> <<>>]

\* a variant whose fallback clears the selection of the filters in place
ComputeKpisClearingSelection ==
    /\ pc = "idle"
    /\ pc' = "done"
    /\ LET target == TargetSegmentType(filters, data)
           ds == Dataset(filters, data)
           isGeo == IsGeographyMode(filters)
           sel == filters.geographies
           early == EarlyReturn(filters, data)
           filtered == GlobalRecords(ds, sel, target, isGeo)
           global == IF isGeo /\ Len(filtered) > 0
                     THEN DeduplicatedRecords(ds, filtered)
                     ELSE filtered
           leaf == WorkingSet(ds, sel, target, isGeo)
           fallbackRecords == FallbackRecords(ds, target)
           fallback == Len(leaf) = 0 /\ Len(sel) > 0 /\ Len(fallbackRecords) > 0
           final == IF fallback THEN fallbackRecords ELSE leaf
       IN  /\ targetSegmentType' = IF data.loaded THEN target ELSE NoSeg
           /\ selectedGeographies' = IF ~data.loaded THEN <<>>
                                     ELSE IF ~early /\ fallback THEN <<>> ELSE sel
           /\ globalRecords' = IF early THEN <<>> ELSE global
           /\ leafRecords' = IF early THEN <<>> ELSE final
           /\ fallbackTaken' = (~early /\ fallback)
           /\ kpiData' = Result(ds, final, filters, target, early)
           /\ filters' = IF ~early /\ fallback THEN [filters EXCEPT !.geographies = <<>>]
                         ELSE filters
    /\ UNCHANGED data
    /\ UNCHANGED <<treeVars, structVars, objectPrototype, againVars>>
\* lines 11-238: the callback
ComputeKpis ==
    /\ pc = "idle"
    /\ pc' = "done"
    /\ LET target == TargetSegmentType(filters, data)
           ds == Dataset(filters, data)
           isGeo == IsGeographyMode(filters)
           sel == filters.geographies
           early == EarlyReturn(filters, data)
           filtered == GlobalRecords(ds, sel, target, isGeo)
           global == IF isGeo /\ Len(filtered) > 0
                     THEN DeduplicatedRecords(ds, filtered)
                     ELSE filtered
           leaf == WorkingSet(ds, sel, target, isGeo)
           fallbackRecords == FallbackRecords(ds, target)
           fallback == Len(leaf) = 0 /\ Len(sel) > 0 /\ Len(fallbackRecords) > 0
           final == IF fallback THEN fallbackRecords ELSE leaf
       IN  /\ targetSegmentType' = IF data.loaded THEN target ELSE NoSeg
           /\ selectedGeographies' = IF ~data.loaded THEN <<>>
                                     ELSE IF ~early /\ fallback THEN <<>> ELSE sel
           /\ globalRecords' = IF early THEN <<>> ELSE global
           /\ leafRecords' = IF early THEN <<>> ELSE final
           /\ fallbackTaken' = (~early /\ fallback)
           /\ kpiData' = Result(ds, final, filters, target, early)
    /\ UNCHANGED <<data, filters>>
    /\ UNCHANGED <<treeVars, structVars, objectPrototype, againVars>>

\* line 238: useMemo calls the callback again, with the same data and filters
InvokeKpisAgain ==
    /\ pc = "done"
    /\ firstKpiData = <<>>
    /\ firstKpiData' = <<kpiData>>
    /\ pc' = "idle"
    /\ UNCHANGED <<data, filters, selectedGeographies, targetSegmentType,
                   globalRecords, leafRecords, fallbackTaken, kpiData>>
    /\ UNCHANGED <<treeVars, structVars, objectPrototype, firstTree, treeIdx,
                   firstStructure>>

(***************************************************************************)
(* JavaScript objects                                                      *)
(* An object graph is a function from paths (sequences of keys) to values; *)
(* the value at a path is an object, a function or a primitive.  There are *)
(* two graphs: the one rooted at the local `result`, and the one rooted at *)
(* Object.prototype, from which every object literal inherits.             *)
(***************************************************************************)
Obj == [kind |-> "object", num |-> 0, str |-> ""]
Num(v) == [kind |-> "number", num |-> v, str |-> ""]
Str(x) == [kind |-> "string", num |-> 0, str |-> x]
True == [kind |-> "boolean", num |-> 1, str |-> ""]
\* a function value; num is its `length`
Function(n) == [kind |-> "function", num |-> n, str |-> ""]
\* the absent (undefined / null) hierarchy level and the absent cagr
Undefined == "<undefined>"
NoCagr == <<>>

\* const result: any = {}
EmptyTree == (<<>> :> Obj)
\* Object.prototype of a fresh realm: `constructor` is the function Object,
\* whose length is 1 (the other built-in members are left out)
ObjectPrototype == (<<>> :> Obj) @@ (<<"constructor">> :> Function(1))
\* the prototype of the wrapper of a primitive (Number.prototype, String.prototype)
WrapperPrototype == "<wrapper prototype>"

Falsy(v) == (v.kind = "number" /\ v.num = 0) \/ (v.kind = "string" /\ v.str = "")
IsObjectValue(v) == v.kind \in {"object", "function"}
IsPrefix(p, q) == Len(p) <= Len(q) /\ SubSeq(q, 1, Len(p)) = p

\* o[key] = v on an object: what the property held before is dropped
Assign(t, p, v) ==
    [q \in {q \in DOMAIN t : ~IsPrefix(p, q)} \cup {p} |-> IF q = p THEN v ELSE t[q]]

\* a reference `current` is st.cur, a path in the graph of `result` or, when
\* st.inProto, in the graph of Object.prototype; st.isObject tells whether the
\* value referred to is an object
OwnGraph(st) == IF st.inProto THEN st.proto ELSE st.tree
NotFound == [found |-> FALSE, inProto |-> FALSE, path |-> <<>>, value |-> Obj]

\* current[key]: the own property, else the one inherited from Object.prototype
Get(st, key) ==
    LET own == Append(st.cur, key)
    IN  IF st.isObject /\ own \in DOMAIN OwnGraph(st)
        THEN [found |-> TRUE, inProto |-> st.inProto, path |-> own,
              value |-> OwnGraph(st)[own]]
        ELSE IF st.isObject /\ st.inProto /\ st.cur = <<>>
        THEN NotFound
        ELSE IF key = "__proto__"
        THEN [found |-> TRUE, inProto |-> TRUE,
              path |-> IF st.isObject THEN <<>> ELSE <<WrapperPrototype>>,
              value |-> Obj]
        ELSE IF <<key>> \in DOMAIN st.proto
        THEN [found |-> TRUE, inProto |-> TRUE, path |-> <<key>>,
              value |-> st.proto[<<key>>]]
        ELSE NotFound

\* current[key] = v; creating a property on a primitive raises a TypeError
\* (the module is strict-mode code), and so does giving Object.prototype a
\* prototype
SetProperty(st, key, v) ==
    IF st.raised THEN st
    ELSE IF ~st.isObject THEN [st EXCEPT !.raised = TRUE]
    ELSE IF key = "__proto__"
    THEN IF st.inProto /\ st.cur = <<>> /\ IsObjectValue(v)
         THEN [st EXCEPT !.raised = TRUE]
         ELSE st
    ELSE IF st.inProto
    THEN [st EXCEPT !.proto = Assign(st.proto, Append(st.cur, key), v)]
    ELSE [st EXCEPT !.tree = Assign(st.tree, Append(st.cur, key), v)]

\* if (!current[key]) current[key] = {}; current = current[key]
Descend(st, key) ==
    IF st.raised THEN st
    ELSE LET got == Get(st, key)
         IN  IF got.found /\ ~Falsy(got.value)
             THEN [st EXCEPT !.cur = got.path, !.inProto = got.inProto,
                             !.isObject = IsObjectValue(got.value)]
             ELSE LET st1 == SetProperty(st, key, Obj)
                  IN  IF st1.raised THEN st1
                      ELSE [st1 EXCEPT !.cur = Append(st.cur, key), !.isObject = TRUE]

(***************************************************************************)
(* rebuildTree: extractValueData / extractVolumeData                       *)
(***************************************************************************)
\* a variant that also reads the labels supplied beyond level_5
SegmentsWithFurtherLevels(r) ==
    LET levels == <<r.segment_hierarchy.level_1, r.segment_hierarchy.level_2,
                    r.segment_hierarchy.level_3, r.segment_hierarchy.level_4,
                    r.segment_hierarchy.level_5>> \o r.segment_hierarchy.more
        present == SelectSeq(levels, LAMBDA l : l # Undefined /\ l # "")
    IN  SubSeq(present, 1, IF Len(present) < MAX_SEGMENT_DEPTH THEN Len(present)
                           ELSE MAX_SEGMENT_DEPTH)
\* lines 177-183: [level_1 .. level_5].filter(Boolean).slice(0, MAX_SEGMENT_DEPTH)
Segments(r) ==
    LET levels == <<r.segment_hierarchy.level_1, r.segment_hierarchy.level_2,
                    r.segment_hierarchy.level_3, r.segment_hierarchy.level_4,
                    r.segment_hierarchy.level_5>>
        present == SelectSeq(levels, LAMBDA l : l # Undefined /\ l # "")
    IN  SubSeq(present, 1, IF Len(present) < MAX_SEGMENT_DEPTH THEN Len(present)
                           ELSE MAX_SEGMENT_DEPTH)

\* lines 187-199: the walk down the hierarchy labels of one record
RECURSIVE Walk(_, _, _)
Walk(st, segs, depth) ==
    IF segs = <<>> \/ st.raised THEN st
    ELSE IF depth >= MAX_SEGMENT_DEPTH THEN [st EXCEPT !.warned = TRUE]
    ELSE LET segment == Head(segs)
         IN  IF segment # Undefined /\ segment # ""
             THEN Walk(Descend(st, segment), Tail(segs), depth + 1)
             ELSE Walk(st, Tail(segs), depth)

\* lines 202-206: for (const [year, value] of Object.entries(record.time_series))
RECURSIVE AddYears(_, _, _)
AddYears(st, ts, years) ==
    IF years = {} THEN st
    ELSE LET year == CHOOSE y \in years : TRUE
             st1 == IF year # "" THEN SetProperty(st, year, Num(ts[year])) ELSE st
         IN  AddYears(st1, ts, years \ {year})

\* lines 208-210: if (record.cagr) current.CAGR = `${record.cagr}%`
AddCagr(st, r) ==
    IF r.cagr # NoCagr /\ r.cagr[1] # 0
    THEN SetProperty(st, "CAGR", Str(ToString(r.cagr[1]) \o "%"))
    ELSE st

\* lines 212-217 (extractValueData only)
AddAggregated(st, r) ==
    IF r.is_aggregated
    THEN LET st1 == SetProperty(st, "_aggregated", True)
         IN  IF r.aggregation_level # NoLevel
             THEN SetProperty(st1, "_level", Num(r.aggregation_level))
             ELSE st1
    ELSE st

\* lines 163-218 and 233-280: the body of the loop for one record
RebuildStep(t, proto, warned, r, c) ==
    LET geo == r.geography
        segmentType == r.segment_type
        st0 == [tree |-> t, proto |-> proto, cur |-> <<>>, inProto |-> FALSE,
                isObject |-> TRUE, raised |-> FALSE, warned |-> warned]
        st1 == Walk(Descend(Descend(st0, geo), segmentType), Segments(r), 0)
        st2 == AddYears(st1, r.time_series, DOMAIN r.time_series)
        st3 == AddCagr(st2, r)
    IN  IF c = "value" THEN AddAggregated(st3, r) ELSE st3

(***************************************************************************)
(* One invocation of extractValueData / extractVolumeData                  *)
(***************************************************************************)
\* `more` holds the labels an input supplies beyond level_5 (level_6, level_7, ...)
Hierarchy(l1, l2, l3, l4, l5) ==
    [level_1 |-> l1, level_2 |-> l2, level_3 |-> l3, level_4 |-> l4, level_5 |-> l5,
     more |-> <<>>]
\* fifteen non-empty labels
DeepHierarchy ==
    [Hierarchy("L1", "L2", "L3", "L4", "L5") EXCEPT
        !.more = <<"L6", "L7", "L8", "L9", "L10", "L11", "L12", "L13", "L14", "L15">>]
Hierarchies ==
    { Hierarchy(Undefined, Undefined, Undefined, Undefined, Undefined),
      Hierarchy("A", Undefined, Undefined, Undefined, Undefined),
      Hierarchy("A", Undefined, "C", Undefined, Undefined),
      Hierarchy("A", "", "B", Undefined, Undefined),
      Hierarchy("A", "2024", Undefined, Undefined, Undefined),
      Hierarchy("__proto__", Undefined, Undefined, Undefined, Undefined),
      DeepHierarchy }
Payloads ==
    { [time_series |-> ("2024" :> 5) @@ ("2025" :> 7), cagr |-> NoCagr,
       is_aggregated |-> FALSE, aggregation_level |-> NoLevel],
      [time_series |-> ("2024" :> 0), cagr |-> <<5>>,
       is_aggregated |-> TRUE, aggregation_level |-> 1],
      [time_series |-> ("2025" :> 9), cagr |-> <<0>>,
       is_aggregated |-> TRUE, aggregation_level |-> NoLevel] }
TreeRecords ==
    {[geography |-> gs[1], segment_type |-> gs[2], segment_hierarchy |-> h,
      time_series |-> p.time_series, cagr |-> p.cagr,
      is_aggregated |-> p.is_aggregated, aggregation_level |-> p.aggregation_level] :
        gs \in {<<"G1", "S1">>, <<"G1", "S2">>, <<"G2", "S1">>},
        h \in Hierarchies, p \in Payloads}

\* lines 159-161 and 226-231: entry, with the guard of extractVolumeData
StartRebuild ==
    /\ treePc = "idle"
    /\ \E c \in {"value", "volume"}, absent \in BOOLEAN :
          /\ absent => c = "volume"
          /\ collection' = c
          /\ tree' = EmptyTree
          /\ treePc' = IF absent THEN "done" ELSE "loop"
    /\ UNCHANGED <<treeRecords, treeWarned>>
    /\ UNCHANGED <<kpiVars, structVars, objectPrototype, againVars>>

\* one iteration of `for (const record of ...geography_segment_matrix)`
ProcessRecord ==
    /\ treePc = "loop"
    /\ Len(treeRecords) < MaxRecords
    /\ \E r \in TreeRecords :
          LET st == RebuildStep(tree, objectPrototype, treeWarned, r, collection)
          IN  /\ tree' = st.tree
              /\ objectPrototype' = st.proto
              /\ treeWarned' = st.warned
              /\ treeRecords' = Append(treeRecords, r)
              /\ treePc' = IF st.raised THEN "raised" ELSE "loop"
    /\ UNCHANGED collection
    /\ UNCHANGED <<kpiVars, structVars, againVars>>

\* lines 220 and 282: return result
FinishRebuild ==
    /\ treePc = "loop"
    /\ treePc' = "done"
    /\ UNCHANGED <<collection, treeRecords, tree, treeWarned>>
    /\ UNCHANGED <<kpiVars, structVars, objectPrototype, againVars>>

\* what an invocation hands to its caller: the tree, or the error raised
TreeOutcome ==
    IF treePc = "raised" THEN [raised |-> TRUE, result |-> EmptyTree]
    ELSE [raised |-> FALSE, result |-> tree]

\* lines 105-107 and 159-161: the function is called again with the record
\* sequence of the first invocation
InvokeRebuildAgain ==
    /\ treePc \in {"done", "raised"}
    /\ firstTree = <<>>
    /\ firstTree' = <<TreeOutcome>>
    /\ tree' = EmptyTree
    /\ treeIdx' = 0
    /\ treePc' = "replay"
    /\ UNCHANGED <<collection, treeRecords, treeWarned, objectPrototype>>
    /\ UNCHANGED <<kpiVars, structVars, firstKpiData, firstStructure>>

\* one iteration of the loop of the second invocation
ReplayRecord ==
    /\ treePc = "replay"
    /\ treeIdx < Len(treeRecords)
    /\ LET st == RebuildStep(tree, objectPrototype, treeWarned,
                             treeRecords[treeIdx + 1], collection)
       IN  /\ tree' = st.tree
           /\ objectPrototype' = st.proto
           /\ treeWarned' = st.warned
           /\ treePc' = IF st.raised THEN "raised" ELSE "replay"
    /\ treeIdx' = treeIdx + 1
    /\ UNCHANGED <<collection, treeRecords>>
    /\ UNCHANGED <<kpiVars, structVars, firstKpiData, firstTree, firstStructure>>

\* lines 220 and 282: return result, in the second invocation
FinishReplay ==
    /\ treePc = "replay"
    /\ treeIdx = Len(treeRecords)
    /\ treePc' = "done"
    /\ UNCHANGED <<collection, treeRecords, tree, treeWarned, objectPrototype>>
    /\ UNCHANGED <<kpiVars, structVars, againVars>>

(***************************************************************************)
(* rebuildStructure: extractSegmentationData                               *)
(***************************************************************************)
\* an array value and the absent value, in the shape of what hierarchy[item] yields
Array(items) == [kind |-> "array", items |-> items, length |-> Len(items)]
NoChildren == [kind |-> "undefined", items |-> <<>>, length |-> 0]

\* hierarchy[item]: the own property, an array of children, else what
\* Object.prototype supplies; of the inherited values only a function has a
\* length, an inherited object or number has none
HierarchyGet(hierarchy, proto, item) ==
    IF item \in DOMAIN hierarchy THEN Array(hierarchy[item])
    ELSE IF item # "__proto__" /\ <<item>> \in DOMAIN proto
                              /\ proto[<<item>>].kind = "function"
    THEN [kind |-> "function", items |-> <<>>, length |-> proto[<<item>>].num]
    ELSE NoChildren

\* line 311: const itemPath = path ? `${path} > ${item}` : item
ItemPath(path, item) == IF path # "" THEN path \o " > " \o item ELSE item

\* lines 303-329: buildHierarchy; st.cur is `parent`, st.warned the kinds of
\* warning issued; iterating a value that is not an array raises a TypeError
RECURSIVE BuildHierarchy(_, _, _, _, _, _)
RECURSIVE BuildItems(_, _, _, _, _, _)
RECURSIVE BuildItemsVisitedOnce(_, _, _, _, _, _)
BuildHierarchy(st, items, hierarchy, level, path, visitedItems) ==
    IF level > MAX_HIERARCHY_DEPTH THEN [st EXCEPT !.warned = @ \cup {"depth"}]
    ELSE IF items.kind # "array" THEN [st EXCEPT !.raised = TRUE]
    ELSE BuildItems(st, items.items, hierarchy, level, path, visitedItems)
\* mutant: an item is visited once for a segment type, under its first parent
BuildItemsVisitedOnce(st, items, hierarchy, level, path, visitedItems) ==
    IF items = <<>> \/ st.raised THEN st
    ELSE LET item == Head(items)
             itemPath == ItemPath(path, item)
             visited == \E p \in DOMAIN st.tree :
                            /\ Len(p) > 2 /\ SubSeq(p, 1, 2) = SubSeq(st.cur, 1, 2)
                            /\ p[Len(p)] = item
         IN  IF itemPath \in visitedItems \/ visited
             THEN BuildItemsVisitedOnce([st EXCEPT !.warned = @ \cup {"circular"}],
                                        Tail(items), hierarchy, level, path, visitedItems)
             ELSE LET child == Descend(st, item)
                      children == HierarchyGet(hierarchy, st.proto, item)
                      built == IF ~child.raised /\ children.length > 0
                               THEN BuildHierarchy(child, children, hierarchy, level + 1,
                                                   itemPath, visitedItems \cup {itemPath})
                               ELSE child
                      back == [built EXCEPT !.cur = st.cur, !.inProto = st.inProto,
                                            !.isObject = st.isObject]
                  IN  BuildItemsVisitedOnce(back, Tail(items), hierarchy, level, path,
                                            visitedItems)

\* lines 310-328: the loop `for (const item of items)`
BuildItems(st, items, hierarchy, level, path, visitedItems) ==
    IF items = <<>> \/ st.raised THEN st
    ELSE LET item == Head(items)
             itemPath == ItemPath(path, item)
         IN  IF itemPath \in visitedItems
             THEN BuildItems([st EXCEPT !.warned = @ \cup {"circular"}], Tail(items),
                             hierarchy, level, path, visitedItems)
             ELSE LET child == Descend(st, item)
                      children == HierarchyGet(hierarchy, st.proto, item)
                      built == IF ~child.raised /\ children.length > 0
                               THEN BuildHierarchy(child, children, hierarchy, level + 1,
                                                   itemPath, visitedItems \cup {itemPath})
                               ELSE child
                      back == [built EXCEPT !.cur = st.cur, !.inProto = st.inProto,
                                            !.isObject = st.isObject]
                  IN  BuildItems(back, Tail(items), hierarchy, level, path, visitedItems)

\* line 332: the items that no hierarchy entry lists as a child
TopLevel(segmentDim) ==
    SelectSeq(segmentDim.items,
              LAMBDA item : \A k \in DOMAIN segmentDim.hierarchy :
                                item \notin Range(segmentDim.hierarchy[k]))

\* lines 296-335: the body of the loop over Object.entries(segments) for one
\* geography and one segment dimension
BuildSegmentTypeNode(t, proto, geo, segmentDim) ==
    LET segmentType == segmentDim.type
        st0 == [tree |-> Assign(t, <<geo, segmentType>>, Obj), proto |-> proto,
                cur |-> <<geo, segmentType>>, inProto |-> FALSE, isObject |-> TRUE,
                raised |-> FALSE, warned |-> {}]
    IN  IF segmentDim.hasItems /\ segmentDim.hasHierarchy
        THEN BuildHierarchy(st0, Array(TopLevel(segmentDim)), segmentDim.hierarchy,
                            0, "", {})
        ELSE st0

(***************************************************************************)
(* One invocation of extractSegmentationData                               *)
(***************************************************************************)
\* lines 288-289: entry
StartStructure ==
    /\ structPc = "idle"
    /\ structPc' = "loop"
    /\ structure' = EmptyTree
    /\ structGeo' = 0
    /\ structSeg' = 0
    /\ structWarnings' = {}
    /\ UNCHANGED <<dimensions, objectPrototype>>
    /\ UNCHANGED <<kpiVars, treeVars, againVars>>

SegmentsDone == structGeo = 0 \/ structSeg > Len(dimensions.segments)

\* lines 292-293: the next geography; result[geo] = {}
EnterGeography ==
    /\ structPc = "loop"
    /\ SegmentsDone
    /\ structGeo < Len(dimensions.all_geographies)
    /\ structGeo' = structGeo + 1
    /\ structSeg' = 1
    /\ structure' = Assign(structure, <<dimensions.all_geographies[structGeo + 1]>>, Obj)
    /\ UNCHANGED <<dimensions, structWarnings, structPc, objectPrototype>>
    /\ UNCHANGED <<kpiVars, treeVars, againVars>>

\* lines 295-335: the next segment dimension of the current geography
BuildSegmentType ==
    /\ structPc = "loop"
    /\ structGeo >= 1
    /\ structSeg <= Len(dimensions.segments)
    /\ LET st == BuildSegmentTypeNode(structure, objectPrototype,
                                      dimensions.all_geographies[structGeo],
                                      dimensions.segments[structSeg])
       IN  /\ structure' = st.tree
           /\ objectPrototype' = st.proto
           /\ structWarnings' = structWarnings \cup st.warned
           /\ structPc' = IF st.raised THEN "raised" ELSE "loop"
    /\ structSeg' = structSeg + 1
    /\ UNCHANGED <<dimensions, structGeo>>
    /\ UNCHANGED <<kpiVars, treeVars, againVars>>

\* line 338: return result
FinishStructure ==
    /\ structPc = "loop"
    /\ SegmentsDone
    /\ structGeo = Len(dimensions.all_geographies)
    /\ structPc' = "done"
    /\ UNCHANGED <<dimensions, structure, structGeo, structSeg, structWarnings,
                   objectPrototype>>
    /\ UNCHANGED <<kpiVars, treeVars, againVars>>

StructureOutcome ==
    IF structPc = "raised" THEN [raised |-> TRUE, result |-> EmptyTree]
    ELSE [raised |-> FALSE, result |-> structure]

\* lines 109 and 288-289: the function is called again with the same dimensions
InvokeStructureAgain ==
    /\ structPc \in {"done", "raised"}
    /\ firstStructure = <<>>
    /\ firstStructure' = <<StructureOutcome>>
    /\ structPc' = "idle"
    /\ UNCHANGED <<dimensions, structure, structGeo, structSeg, structWarnings,
                   objectPrototype>>
    /\ UNCHANGED <<kpiVars, treeVars, firstKpiData, firstTree, treeIdx>>

(***************************************************************************)
(* Inputs of rebuildStructure                                              *)
(***************************************************************************)
SegmentDim(items, hierarchy) ==
    [type |-> "", hasItems |-> TRUE, items |-> items,
     hasHierarchy |-> TRUE, hierarchy |-> hierarchy]
NoHierarchy == <<>>
\* a chain I1 -> I2 -> ... longer than the depth cap
ChainLength == MAX_HIERARCHY_DEPTH + 3
ChainItem(k) == "I" \o ToString(k)
ChainItems == [k \in 1..ChainLength |-> ChainItem(k)]
ChainHierarchy == [i \in {ChainItem(k) : k \in 1..(ChainLength - 1)} |->
                     <<ChainItem((CHOOSE k \in 1..(ChainLength - 1) : ChainItem(k) = i) + 1)>>]
SegmentDims ==
    { \* a tree, a flat list, a child shared by two parents
      SegmentDim(<<"A", "B", "C">>, ("A" :> <<"B", "C">>)),
      SegmentDim(<<"A", "B">>, NoHierarchy),
      SegmentDim(<<"P", "Q", "X", "Y">>,
                 ("P" :> <<"X">>) @@ ("Q" :> <<"X">>) @@ ("X" :> <<"Y">>)),
      \* cycles below a top-level item, and a cycle through every item
      SegmentDim(<<"T", "A", "B">>, ("T" :> <<"A">>) @@ ("A" :> <<"B">>) @@ ("B" :> <<"A">>)),
      SegmentDim(<<"T", "A">>, ("T" :> <<"A">>) @@ ("A" :> <<"A">>)),
      SegmentDim(<<"A", "B">>, ("A" :> <<"B">>) @@ ("B" :> <<"A">>)),
      \* deeper than the cap
      SegmentDim(ChainItems, ChainHierarchy),
      \* an item named like an inherited property
      SegmentDim(<<"constructor">>, NoHierarchy),
      \* no item list, no hierarchy map, an empty item list
      [SegmentDim(<<>>, NoHierarchy) EXCEPT !.hasItems = FALSE],
      [SegmentDim(<<"A">>, NoHierarchy) EXCEPT !.hasHierarchy = FALSE],
      SegmentDim(<<>>, NoHierarchy) }
\* the keys of data.dimensions.segments are distinct
SegmentTypeKey(i) == "S" \o ToString(i)
Dimensions(geos, dims) ==
    [all_geographies |-> geos,
     segments |-> [i \in 1..Len(dims) |-> [dims[i] EXCEPT !.type = SegmentTypeKey(i)]]]
NoDimensions == Dimensions(<<>>, <<>>)

(***************************************************************************)
(* Inputs of computeKpis                                                   *)
(***************************************************************************)
Geographies == {"G1", "G2"}
SegmentTypes == {"S1", "S2"}
AggregationKinds ==
    {[is_aggregated |-> FALSE, aggregation_level |-> NoLevel]}
    \cup {[is_aggregated |-> TRUE, aggregation_level |-> l] : l \in 0..MaxLevel}
KpiSeries ==
    { ("2024" :> 100) @@ ("2032" :> 200),
      ("2024" :> 50) @@ ("2032" :> 150),
      ("2024" :> 0),
      ("2024" :> -100) @@ ("2032" :> 150) }
\* series over other years, and with keys that are not a year
YearSeries ==
    { ("2024" :> 100) @@ ("2032" :> 200),
      ("2025" :> 10) @@ ("2030" :> 30),
      ("2026Q1" :> 7) @@ ("total" :> 40),
      ("total" :> 40) }
KpiRecord(g, s, k, t) ==
    [geography |-> g, segment_type |-> s, is_aggregated |-> k.is_aggregated,
     aggregation_level |-> k.aggregation_level, time_series |-> t]
\* records that differ in geography, segment type and aggregation
SelectionRecords ==
    {KpiRecord(g, s, k, ("2024" :> 100) @@ ("2032" :> 200)) :
        g \in Geographies, s \in SegmentTypes, k \in AggregationKinds}
\* records that differ in their time series
SeriesRecords ==
    {KpiRecord("G1", "S1", k, t) :
        k \in {j \in AggregationKinds : j.aggregation_level \in {NoLevel, 1}},
        t \in KpiSeries}
\* leaf records that differ in the keys of their time series
YearRecords ==
    {KpiRecord("G1", "S1", [is_aggregated |-> FALSE, aggregation_level |-> NoLevel], t) :
        t \in YearSeries}
GeographySelections == {<<>>, <<"G1">>, <<"G1", "G3">>}
ViewModes == {"normal", "geography-mode", "matrix"}
YearRange == <<DefaultStartYear, DefaultEndYear>>
NoYearRange == <<>>
YearRanges == {YearRange, NoYearRange, <<2025, 2030>>}
KpiFilters(gs, st, dt, vm) ==
    [geographies |-> gs, segmentType |-> st, dataType |-> dt, viewMode |-> vm,
     yearRange |-> YearRange]
LoadedData(v, w, sts) == [loaded |-> TRUE, value |-> v, volume |-> w, segmentTypes |-> sts]

\* the value dataset under every selection, segment type and view mode
InitKpiSelection ==
    \E v \in SeqsUpTo(SelectionRecords, MaxRecords), gs \in GeographySelections,
       st \in {"S1", "S3"}, vm \in ViewModes :
        /\ data = LoadedData(v, <<>>, <<"S1", "S2">>)
        /\ filters = KpiFilters(gs, st, "value", vm)

\* one geography and segment type under every time series
InitKpiSeries ==
    \E v \in SeqsUpTo(SeriesRecords, MaxRecords), gs \in {<<>>, <<"G3">>},
       vm \in {"normal", "geography-mode"} :
        /\ data = LoadedData(v, <<>>, <<"S1", "S2">>)
        /\ filters = KpiFilters(gs, "S1", "value", vm)

\* time series over several sets of keys under every year range of the filters
InitKpiYears ==
    \E v \in SeqsUpTo(YearRecords, MaxRecords), yr \in YearRanges :
        /\ data = LoadedData(v, <<>>, <<"S1", "S2">>)
        /\ filters = [KpiFilters(<<>>, "S1", "value", "normal") EXCEPT !.yearRange = yr]

\* no data, no segment dimensions, no segment type in the filters, the volume dataset
InitKpiSide ==
    \E gs \in GeographySelections, st \in {NoSeg, "S1", "S3"},
       dt \in {"value", "volume"}, vm \in ViewModes :
        /\ filters = KpiFilters(gs, st, dt, vm)
        /\ \/ data = NoData
           \/ \E v \in SeqsUpTo(SelectionRecords, 1),
                 w \in SeqsUpTo({r \in SelectionRecords : r.geography = "G1"}, 1),
                 sts \in {<<>>, <<"S1", "S2">>} :
                  data = LoadedData(v, w, sts)

KpiInputs == InitKpiSelection \/ InitKpiSeries \/ InitKpiYears \/ InitKpiSide
NoKpiInputs ==
    /\ data = NoData
    /\ filters = KpiFilters(<<>>, NoSeg, "value", "normal")
StructureInputs ==
    \E geos \in {<<>>, <<"G1">>, <<"G1", "G2">>},
       dims \in SeqsUpTo(SegmentDims, MaxDimensions) :
        dimensions = Dimensions(geos, dims)

\* before the first invocation of each function
InitKpiVars ==
    /\ selectedGeographies = <<>>
    /\ targetSegmentType = NoSeg
    /\ globalRecords = <<>>
    /\ leafRecords = <<>>
    /\ fallbackTaken = FALSE
    /\ kpiData = NullResult
    /\ pc = "idle"
    /\ firstKpiData = <<>>

InitTreeVars ==
    /\ collection = "value"
    /\ treeRecords = <<>>
    /\ tree = EmptyTree
    /\ treeWarned = FALSE
    /\ treePc = "idle"
    /\ firstTree = <<>>
    /\ treeIdx = 0

InitStructVars ==
    /\ structure = EmptyTree
    /\ structGeo = 0
    /\ structSeg = 0
    /\ structWarnings = {}
    /\ structPc = "idle"
    /\ firstStructure = <<>>

InitKpi ==
    /\ KpiInputs /\ InitKpiVars
    /\ InitTreeVars
    /\ dimensions = NoDimensions /\ InitStructVars
    /\ objectPrototype = ObjectPrototype

NextKpi == ComputeKpis

SpecKpi == InitKpi /\ [][NextKpi]_vars

InitTree ==
    /\ NoKpiInputs /\ InitKpiVars
    /\ InitTreeVars
    /\ dimensions = NoDimensions /\ InitStructVars
    /\ objectPrototype = ObjectPrototype

NextTree == StartRebuild \/ ProcessRecord \/ FinishRebuild

SpecTree == InitTree /\ [][NextTree]_vars

InitStruct ==
    /\ NoKpiInputs /\ InitKpiVars
    /\ InitTreeVars
    /\ StructureInputs /\ InitStructVars
    /\ objectPrototype = ObjectPrototype

NextStruct == StartStructure \/ EnterGeography \/ BuildSegmentType \/ FinishStructure

SpecStruct == InitStruct /\ [][NextStruct]_vars

(***************************************************************************)
(* The three functions side by side: one of them is about to be invoked,   *)
(* the other two have returned from an invocation on empty input (from two *)
(* invocations when `twice`).                                              *)
(***************************************************************************)
KpiAtRest(twice) ==
    /\ NoKpiInputs
    /\ selectedGeographies = <<>>
    /\ targetSegmentType = NoSeg
    /\ globalRecords = <<>>
    /\ leafRecords = <<>>
    /\ fallbackTaken = FALSE
    /\ kpiData = NullResult
    /\ pc = "done"
    /\ firstKpiData = IF twice THEN <<NullResult>> ELSE <<>>

TreeAtRest(twice) ==
    /\ collection = "value"
    /\ treeRecords = <<>>
    /\ tree = EmptyTree
    /\ treeWarned = FALSE
    /\ treePc = "done"
    /\ firstTree = IF twice THEN <<[raised |-> FALSE, result |-> EmptyTree]>> ELSE <<>>
    /\ treeIdx = 0

StructureAtRest(twice) ==
    /\ dimensions = NoDimensions
    /\ structure = EmptyTree
    /\ structGeo = 0
    /\ structSeg = 0
    /\ structWarnings = {}
    /\ structPc = "done"
    /\ firstStructure = IF twice THEN <<[raised |-> FALSE, result |-> EmptyTree]>> ELSE <<>>

InitOneOfThree(twice) ==
    /\ objectPrototype = ObjectPrototype
    /\ \/ KpiInputs /\ InitKpiVars /\ TreeAtRest(twice) /\ StructureAtRest(twice)
       \/ KpiAtRest(twice) /\ InitTreeVars /\ StructureAtRest(twice)
       \/ KpiAtRest(twice) /\ TreeAtRest(twice) /\ StructureInputs /\ InitStructVars

InitCore == InitOneOfThree(FALSE)

NextCore == NextKpi \/ NextTree \/ NextStruct

SpecCore == InitCore /\ [][NextCore]_vars

\* each function invoked a second time on the input of its first invocation
InitAgain == InitOneOfThree(TRUE)

NextAgain ==
    \/ NextCore
    \/ InvokeKpisAgain
    \/ InvokeRebuildAgain \/ ReplayRecord \/ FinishReplay
    \/ InvokeStructureAgain

SpecAgain == InitAgain /\ [][NextAgain]_vars

(***************************************************************************)
(* Properties of computeKpis                                               *)
(***************************************************************************)
KpiDone == pc = "done"
KpiReturned == pc = "done" /\ ~kpiData.isNull
ChosenDataset == Dataset(filters, data)
NonGeographyMode == filters.viewMode \in {"normal", "matrix"}
GeographySelected(r) ==
    Len(filters.geographies) = 0 \/ r.geography \in Range(filters.geographies)

\* what one record adds to the total of a year
Contribution(r, year) ==
    IF ToString(year) \in DOMAIN r.time_series THEN r.time_series[ToString(year)] ELSE 0
RECURSIVE SumOver(_, _, _)
SumOver(ds, S, year) ==
    IF S = {} THEN 0
    ELSE LET i == CHOOSE j \in S : TRUE
         IN  Contribution(ds[i], year) + SumOver(ds, S \ {i}, year)

\* the records that pass the geography and segment-type filter
Passing ==
    {i \in 1..Len(ChosenDataset) :
        /\ GeographySelected(ChosenDataset[i])
        /\ ChosenDataset[i].segment_type = targetSegmentType}
PassingLeaves == {i \in Passing : ~ChosenDataset[i].is_aggregated}

\* C1: in normal or matrix mode, when the records passing the geography and
\* segment-type filter include a leaf record, only non-aggregated records are
\* summed: the working set holds no aggregated record and both market sizes are
\* the totals of the passing leaf records.
C1_OnlyLeavesSummed ==
    (KpiDone /\ NonGeographyMode /\ targetSegmentType # NoSeg /\ PassingLeaves # {})
    => /\ ~kpiData.isNull
       /\ \A i \in Range(leafRecords) : ~ChosenDataset[i].is_aggregated
       /\ kpiData.marketSizeStart = SumOver(ChosenDataset, PassingLeaves, kpiData.startYear)
       /\ kpiData.marketSizeEnd = SumOver(ChosenDataset, PassingLeaves, kpiData.endYear)

\* a leaf of 100 and a level-1 roll-up of 100 pass the filter and the total is 100
C1_Witness ==
    /\ KpiDone /\ NonGeographyMode /\ targetSegmentType # NoSeg
    /\ Cardinality(PassingLeaves) = 1
    /\ \E i \in Passing : ChosenDataset[i].is_aggregated
                          /\ ChosenDataset[i].aggregation_level = 1
    /\ ~kpiData.isNull /\ kpiData.marketSizeStart = 100

\* the first record of a geography in input order
FirstOfGeography(ds, g) == SetMin({j \in 1..Len(ds) : ds[j].geography = g})

\* C2: in geography mode every record that contributes to the totals carries the
\* segment type of the first record of its geography in input order.
C2_FirstSegmentTypePerGeography ==
    (KpiReturned /\ IsGeographyMode(filters))
    => \A i \in Range(leafRecords) :
          ChosenDataset[i].segment_type =
              ChosenDataset[FirstOfGeography(ChosenDataset,
                                             ChosenDataset[i].geography)].segment_type

\* C3: in normal or matrix mode every contributing record has the target segment
\* type, on the normal path and after the fallback; without fallback and with a
\* non-empty selection every contributing record's geography is selected.
C3_SingleSegmentType ==
    (KpiReturned /\ NonGeographyMode)
    => /\ \A i \in Range(leafRecords) :
             ChosenDataset[i].segment_type = targetSegmentType
       /\ (~fallbackTaken /\ Len(filters.geographies) > 0)
          => \A i \in Range(leafRecords) :
                ChosenDataset[i].geography \in Range(filters.geographies)

\* the fallback was taken while the dataset also holds another segment type
C3_Witness ==
    /\ KpiReturned /\ NonGeographyMode /\ fallbackTaken
    /\ \E i \in 1..Len(ChosenDataset) : ChosenDataset[i].segment_type # targetSegmentType

\* C4: in every view mode, a target segment type that occurs in no record of the
\* chosen dataset gives null.
C4_AbsentSegmentTypeGivesNull ==
    (KpiDone /\ data.loaded
       /\ \A i \in 1..Len(ChosenDataset) : ChosenDataset[i].segment_type # targetSegmentType)
    => kpiData.isNull

\* C5: null is returned exactly when the dataset is absent or empty, no target
\* segment type exists, or the working set is empty after the fallback; a
\* non-empty working set gives a summary, and a start total of 0 gives cagr 0.
C5_NullExactlyWhenNothingToAggregate ==
    KpiDone
    => /\ kpiData.isNull <=> \/ ~data.loaded
                             \/ Len(ChosenDataset) = 0
                             \/ TargetSegmentType(filters, data) = NoSeg
                             \/ Len(leafRecords) = 0
       /\ (~kpiData.isNull /\ kpiData.marketSizeStart = 0) => kpiData.cagr.zero

\* a summary whose totals are both 0
C5_Witness ==
    /\ KpiReturned /\ Len(leafRecords) > 0
    /\ kpiData.marketSizeStart = 0 /\ kpiData.marketSizeEnd = 0 /\ kpiData.cagr.zero

\* C6: after the fallback the geography label reads 'All Geographies'.
C6_FallbackLabel ==
    (KpiReturned /\ fallbackTaken) => kpiData.geographyLabel = "All Geographies"

\* C7: the working set of the fallback is the working set of steps 2-4 for the
\* same records, segment type and view mode with an empty geography selection.
C7_FallbackIsRetry ==
    (KpiDone /\ fallbackTaken)
    => leafRecords = WorkingSet(ChosenDataset, <<>>, targetSegmentType,
                                IsGeographyMode(filters))

\* C8: the market sizes are the sums over the working set of the values at the
\* start and the end year, a missing year counting 0, with no scaling, and the
\* absolute growth is their difference.
C8_MarketSizeSums ==
    KpiReturned
    => /\ kpiData.marketSizeStart =
              SumOver(ChosenDataset, Range(leafRecords), kpiData.startYear)
       /\ kpiData.marketSizeEnd =
              SumOver(ChosenDataset, Range(leafRecords), kpiData.endYear)
       /\ kpiData.absoluteGrowth = kpiData.marketSizeEnd - kpiData.marketSizeStart

\* two leaves {2024: 100, 2032: 200} and {2024: 50, 2032: 150} give 150, 350, 200
C8_Witness ==
    /\ KpiReturned /\ Len(leafRecords) = 2
    /\ kpiData.marketSizeStart = 150 /\ kpiData.marketSizeEnd = 350
    /\ kpiData.absoluteGrowth = 200

\* the fraction p equals absoluteGrowth / marketSizeStart * 100
IsGrowthRatio(p, k) ==
    p.den # 0 /\ p.num * k.marketSizeStart = k.absoluteGrowth * 100 * p.den

\* C9 as stated: the growth percentage is absoluteGrowth / marketSizeStart * 100
\* for every start total other than 0, a negative one included.
C9_GrowthForNonZeroStart ==
    (KpiReturned /\ kpiData.marketSizeStart # 0)
    => IsGrowthRatio(kpiData.growthPercentage, kpiData)

\* C9 amended: the growth percentage is absoluteGrowth / marketSizeStart * 100
\* for every start total greater than 0, and 0 for a start total of 0 or less.
C9_GrowthForPositiveStart ==
    KpiReturned
    => /\ kpiData.marketSizeStart > 0
          => IsGrowthRatio(kpiData.growthPercentage, kpiData)
       /\ kpiData.marketSizeStart <= 0 => kpiData.growthPercentage.num = 0

\* a summary with a negative start total and a non-zero growth
C9_Witness ==
    KpiReturned /\ kpiData.marketSizeStart < 0 /\ kpiData.absoluteGrowth # 0

(***************************************************************************)
(* Properties of rebuildTree                                               *)
(***************************************************************************)
LastRecord == treeRecords[Len(treeRecords)]
\* the hierarchy labels of a record that are present, in order level1..level5
PresentLabels(r) ==
    LET h == r.segment_hierarchy
    IN  SelectSeq(<<h.level_1, h.level_2, h.level_3, h.level_4, h.level_5>>,
                  LAMBDA l : l \notin {Undefined, ""})
NodePath(r) == <<r.geography, r.segment_type>> \o PresentLabels(r)
IsNode(p) == p \in DOMAIN tree /\ tree[p].kind = "object"
HoldsYears(p, r) ==
    \A y \in DOMAIN r.time_series :
        Append(p, y) \in DOMAIN tree /\ tree[Append(p, y)] = Num(r.time_series[y])

\* C10: once a record is processed, every prefix of its path geography ->
\* segmentType -> present labels is a node, the node at the path holds the
\* record's value for every year of its time series, no key of the tree is the
\* empty string, and the geography keys and the segment-type keys under each
\* geography are exactly those of the records processed.
C10_RecordPlacedAtPath ==
    /\ Len(treeRecords) > 0
       => /\ \A k \in 1..Len(NodePath(LastRecord)) :
                IsNode(SubSeq(NodePath(LastRecord), 1, k))
          /\ HoldsYears(NodePath(LastRecord), LastRecord)
    /\ \A p \in DOMAIN tree : \A k \in 1..Len(p) : p[k] # ""
    /\ {p \in DOMAIN tree : Len(p) = 1}
          = {<<treeRecords[j].geography>> : j \in 1..Len(treeRecords)}
    /\ {p \in DOMAIN tree : Len(p) = 2}
          = {<<treeRecords[j].geography, treeRecords[j].segment_type>> :
                j \in 1..Len(treeRecords)}

\* the record last processed was placed: no error was raised and its path is a node
LastPlaced == Len(treeRecords) > 0 /\ treePc # "raised" /\ IsNode(NodePath(LastRecord))
HasField(p, key) == Append(p, key) \in DOMAIN tree
FieldIs(p, key, v) == HasField(p, key) /\ tree[Append(p, key)] = v
\* the records processed so far that map to the path p
RecordsAt(p) == {j \in 1..Len(treeRecords) : NodePath(treeRecords[j]) = p}

\* C11: in the value and in the volume collection alike, the node of a placed
\* record with is_aggregated = true carries _aggregated = true and, when the
\* aggregation level is present, _level equal to it; a node whose records are
\* all non-aggregated carries neither field.
C11_AggregatedMarked ==
    /\ (LastPlaced /\ LastRecord.is_aggregated)
       => /\ FieldIs(NodePath(LastRecord), "_aggregated", True)
          /\ LastRecord.aggregation_level # NoLevel
             => FieldIs(NodePath(LastRecord), "_level", Num(LastRecord.aggregation_level))
    /\ \A p \in DOMAIN tree :
          (IsNode(p) /\ \A j \in RecordsAt(p) : ~treeRecords[j].is_aggregated)
          => ~HasField(p, "_aggregated") /\ ~HasField(p, "_level")

\* C12: the node of a placed record whose cagr is present, 0 included, carries
\* CAGR equal to the cagr followed by '%'; a node whose records all lack cagr
\* carries no CAGR field.
C12_CagrWritten ==
    /\ (LastPlaced /\ LastRecord.cagr # NoCagr)
       => FieldIs(NodePath(LastRecord), "CAGR", Str(ToString(LastRecord.cagr[1]) \o "%"))
    /\ \A p \in DOMAIN tree :
          (IsNode(p) /\ \A j \in RecordsAt(p) : treeRecords[j].cagr = NoCagr)
          => ~HasField(p, "CAGR")

\* C13: when an earlier record maps to the path of the record last processed,
\* no error is raised, the path is a node that holds the later record's value
\* for every year of the later record, and the earlier record's value for every
\* year that only the earlier record has (and no record at that path between
\* the two has).
C13_SamePathMerged ==
    \A i \in 1..(Len(treeRecords) - 1) :
        NodePath(treeRecords[i]) = NodePath(LastRecord)
        => /\ treePc # "raised"
           /\ IsNode(NodePath(LastRecord))
           /\ HoldsYears(NodePath(LastRecord), LastRecord)
           /\ \A y \in DOMAIN treeRecords[i].time_series \ DOMAIN LastRecord.time_series :
                 (\A k \in (i + 1)..(Len(treeRecords) - 1) :
                     NodePath(treeRecords[k]) = NodePath(LastRecord)
                     => y \notin DOMAIN treeRecords[k].time_series)
                 => FieldIs(NodePath(LastRecord), y, Num(treeRecords[i].time_series[y]))

\* C14: no invocation raises, and every hierarchy label on the path of a
\* processed record resolves to a nested node of the tree.
C14_NeverRaises ==
    /\ treePc # "raised"
    /\ \A j \in 1..Len(treeRecords) :
          \A k \in 3..Len(NodePath(treeRecords[j])) :
              IsNode(SubSeq(NodePath(treeRecords[j]), 1, k))

\* every label the record supplies, level_1 .. level_5 and beyond, that is non-empty
SuppliedLabels(r) ==
    PresentLabels(r) \o SelectSeq(r.segment_hierarchy.more,
                                  LAMBDA l : l \notin {Undefined, ""})
SuppliesMoreThanCap(r) == Len(SuppliedLabels(r)) > MAX_SEGMENT_DEPTH
\* the path of the first MAX_SEGMENT_DEPTH supplied labels
CapPath(r) ==
    <<r.geography, r.segment_type>> \o SubSeq(SuppliedLabels(r), 1, MAX_SEGMENT_DEPTH)
NestingWithinCap ==
    \A p \in DOMAIN tree : IsNode(p) => Len(p) <= 2 + MAX_SEGMENT_DEPTH

StructureReturned == structPc = "done"
\* the item labels of a path of the structure, beneath geography and segment type
ItemLabels(p) == SubSeq(p, 3, Len(p))
\* what is reachable from the items of S along the parent-to-children mapping
RECURSIVE Closure(_, _)
Closure(hierarchy, S) ==
    LET T == S \cup UNION {Range(hierarchy[k]) : k \in S \cap DOMAIN hierarchy}
    IN  IF T = S THEN S ELSE Closure(hierarchy, T)
HasCycle(hierarchy) ==
    \E k \in DOMAIN hierarchy : k \in Closure(hierarchy, Range(hierarchy[k]))

\* C16: no path of the structure holds the same item label twice beneath its
\* segment-type node.
C16_NoLabelTwiceOnPath ==
    \A p \in DOMAIN structure :
        \A i, j \in 3..Len(p) : i # j => p[i] # p[j]

\* C17: an invocation never raises: every step of rebuildStructure completes
\* and the invocation returns its tree, for cyclic and for deep hierarchies.
C17_ReturnsWithoutRaising == structPc # "raised"

\* C18: for a geography and a segment dimension whose hierarchy contains a
\* cycle, every item of the item list appears on a path of the returned tree.
C18_EveryItemOfCyclicDimensionPresent ==
    StructureReturned
    => \A g \in Range(dimensions.all_geographies) :
          \A i \in 1..Len(dimensions.segments) :
              LET dim == dimensions.segments[i]
              IN  (dim.hasItems /\ dim.hasHierarchy /\ HasCycle(dim.hierarchy))
                  => \A item \in Range(dim.items) :
                        \E p \in DOMAIN structure :
                            /\ IsPrefix(<<g, dim.type>>, p)
                            /\ item \in Range(ItemLabels(p))

(***************************************************************************)
(* Properties of the three functions together                              *)
(***************************************************************************)
KpiReturnedAgain == pc = "done" /\ firstKpiData # <<>>
TreeReturnedAgain == treePc \in {"done", "raised"} /\ firstTree # <<>>
StructureReturnedAgain == structPc \in {"done", "raised"} /\ firstStructure # <<>>

\* C19: the second invocation of rebuildTree on the record sequence of the
\* first has the outcome of the first, the same tree, and so have the second
\* invocations of computeKpis and of rebuildStructure on their inputs.
C19_SecondInvocationEqual ==
    /\ KpiReturnedAgain => kpiData = firstKpiData[1]
    /\ TreeReturnedAgain => TreeOutcome = firstTree[1]
    /\ StructureReturnedAgain => StructureOutcome = firstStructure[1]

\* C20: no step of computeKpis, rebuildTree or rebuildStructure changes the
\* data, the filters with their selected geographies, the segment dimensions
\* or a record already iterated.
C20_InputsUnchanged ==
    [][/\ data' = data
       /\ filters' = filters
       /\ dimensions' = dimensions
       /\ IsPrefix(treeRecords, treeRecords')]_vars

\* computeKpis took the fallback although geographies were selected, and the
\* filters still hold the selection
C20_Witness ==
    KpiDone /\ fallbackTaken /\ Len(filters.geographies) > 0 /\ ~kpiData.isNull

(***************************************************************************)
(* Properties of the year range of computeKpis                             *)
(***************************************************************************)
FirstOfWorkingSet == ChosenDataset[leafRecords[1]]
ParsableYears(r) == {parseInt[y] : y \in DOMAIN r.time_series \cap DOMAIN parseInt}

\* C21: the start and the end year of a summary are the smallest and the
\* largest year that parses from a key of the time series of the first record
\* of the working set; the year range of the filters (2024 to 2032 when the
\* filters hold none) is reported only when no key of that record parses.
C21_YearsOfFirstRecord ==
    KpiReturned =>
        LET ys == ParsableYears(FirstOfWorkingSet)
        IN  IF ys # {}
            THEN kpiData.startYear = SetMin(ys) /\ kpiData.endYear = SetMax(ys)
            ELSE /\ kpiData.startYear = FilterYearRange(filters)[1]
                 /\ kpiData.endYear = FilterYearRange(filters)[2]

\* the first record holds 2025 and 2030, a later record 2024 and 2032, and the
\* filters ask for 2024 to 2032: the summary runs from 2025 to 2030
C21_Witness ==
    /\ KpiReturned
    /\ Len(leafRecords) = 2
    /\ DOMAIN FirstOfWorkingSet.time_series = {"2025", "2030"}
    /\ DOMAIN ChosenDataset[leafRecords[2]].time_series = {"2024", "2032"}
    /\ filters.yearRange = <<2024, 2032>>
    /\ kpiData.startYear = 2025 /\ kpiData.endYear = 2030

(***************************************************************************)
(* Properties of the selection steps of computeKpis                        *)
(***************************************************************************)
KpiSelected == KpiDone /\ ~EarlyReturn(filters, data)
GeographyPassing == {i \in 1..Len(ChosenDataset) : GeographySelected(ChosenDataset[i])}
FirstPassingOf(g) == SetMin({i \in GeographyPassing : ChosenDataset[i].geography = g})
\* the records of a geography that carry the segment type chosen for it
ChosenGroup(g) ==
    {i \in GeographyPassing :
        /\ ChosenDataset[i].geography = g
        /\ ChosenDataset[i].segment_type = ChosenDataset[FirstPassingOf(g)].segment_type}
PresentLevels(S) == {ChosenDataset[i].aggregation_level : i \in S} \ {NoLevel}
\* leaf records, else level-1 records, else the records of the lowest level
\* present (all of them when no record carries a level)
Preferred(S) ==
    LET leaves == {i \in S : ~ChosenDataset[i].is_aggregated}
        levelOne == {i \in S : ChosenDataset[i].aggregation_level = 1}
    IN  IF leaves # {} THEN leaves
        ELSE IF levelOne # {} THEN levelOne
        ELSE IF PresentLevels(S) # {}
             THEN {i \in S : ChosenDataset[i].aggregation_level = SetMin(PresentLevels(S))}
             ELSE S
PassingGeographies == {ChosenDataset[i].geography : i \in GeographyPassing}

PassingPairs == {PairKey(ChosenDataset[i]) : i \in Passing}
OfPair(S, k) == {i \in S : PairKey(ChosenDataset[i]) = k}
NeitherLeafNorLevelOne(S) ==
    \A i \in S : ChosenDataset[i].is_aggregated /\ ChosenDataset[i].aggregation_level # 1

C24_LabelNamesSummedSegmentType ==
    KpiReturned
    => \E i \in Range(leafRecords) :
          ChosenDataset[i].segment_type = kpiData.segmentTypeLabel

\* the records that pass the filter of step 2 in the view mode of the filters
StepTwoPassing == IF IsGeographyMode(filters) THEN GeographyPassing ELSE Passing
\* the test of line 136 on the result of steps 2-4
FallbackEntered ==
    /\ Len(WorkingSet(ChosenDataset, filters.geographies, targetSegmentType,
                      IsGeographyMode(filters))) = 0
    /\ Len(filters.geographies) > 0

\* C29: when a record passes the filter of step 2 the working set is a
\* non-empty selection of the passing records and the fallback is not taken;
\* the fallback branch is entered exactly when geographies are selected and no
\* record passes the filter of step 2, and the working set is replaced only
\* there.
C29_SelectionKeepsNonEmpty ==
    KpiSelected
    => /\ StepTwoPassing # {}
          => /\ Len(leafRecords) > 0
             /\ Range(leafRecords) \subseteq StepTwoPassing
             /\ ~fallbackTaken
       /\ FallbackEntered <=> (Len(filters.geographies) > 0 /\ StepTwoPassing = {})
       /\ fallbackTaken => FallbackEntered

\* geographies are selected and the passing records are two roll-ups without a
\* level: the working set is not empty and the fallback is not taken
C29_Witness ==
    /\ KpiSelected /\ Len(filters.geographies) > 0
    /\ StepTwoPassing = {1, 2}
    /\ \A i \in StepTwoPassing :
          ChosenDataset[i].is_aggregated /\ ChosenDataset[i].aggregation_level = NoLevel
    /\ Len(leafRecords) > 0 /\ ~fallbackTaken

OfGeography(S, g) == {i \in S : ChosenDataset[i].geography = g}
\* the first segment type of the geography holds roll-ups only and a later
\* segment type of it holds a leaf record
LeafOnlyInLaterType(g) ==
    /\ \A i \in ChosenGroup(g) : ChosenDataset[i].is_aggregated
    /\ \E i \in OfGeography(GeographyPassing, g) \ ChosenGroup(g) :
          ~ChosenDataset[i].is_aggregated

\* C30: in geography mode the segment type of a geography is fixed by input
\* order before the preference for leaf records: a geography whose first
\* segment type holds roll-ups only contributes roll-ups of that segment type,
\* and no leaf record of a later segment type of it is used.
C30_SegmentTypeBeforeLeafPreference ==
    (KpiSelected /\ IsGeographyMode(filters))
    => \A g \in PassingGeographies :
          LeafOnlyInLaterType(g)
          => /\ OfGeography(Range(leafRecords), g) # {}
             /\ OfGeography(Range(leafRecords), g) \subseteq ChosenGroup(g)
             /\ \A i \in OfGeography(Range(leafRecords), g) : ChosenDataset[i].is_aggregated

\* the first record of a geography is a roll-up of one segment type, the second
\* a leaf of another: the roll-up alone is summed
C30_Witness ==
    /\ KpiReturned /\ IsGeographyMode(filters)
    /\ GeographyPassing = {1, 2}
    /\ ChosenDataset[1].geography = ChosenDataset[2].geography
    /\ ChosenDataset[1].segment_type # ChosenDataset[2].segment_type
    /\ ChosenDataset[1].is_aggregated /\ ~ChosenDataset[2].is_aggregated
    /\ leafRecords = <<1>>

(***************************************************************************)
(* Properties of the shape and the diagnostics of rebuildStructure         *)
(***************************************************************************)
\* the children that the parent-to-children mapping gives the last item of a path
ChildrenOf(dim, p) ==
    IF p[Len(p)] \in DOMAIN dim.hierarchy THEN Range(dim.hierarchy[p[Len(p)]]) ELSE {}
WellFormed(dim) == dim.hasItems /\ dim.hasHierarchy
StructureFinished == structPc \in {"done", "raised"}
Beneath(p, q) == IsPrefix(p, q) /\ Len(q) > Len(p)

\* C25: no node of the structure lies more than 20 item levels beneath its
\* segment-type node.
C25_AtMostTwentyItemLevels ==
    \A p \in DOMAIN structure : Len(ItemLabels(p)) <= MAX_HIERARCHY_DEPTH

\* C26: for a hierarchy without a cycle, every child that the mapping gives
\* the item of a node within the depth cap has its own node under that node,
\* so an item with several parents is expanded, sub-tree and all, under each.
C26_SharedChildExpandedUnderEveryParent ==
    StructureReturned
    => \A g \in Range(dimensions.all_geographies) :
          \A i \in 1..Len(dimensions.segments) :
              LET dim == dimensions.segments[i]
              IN  (WellFormed(dim) /\ ~HasCycle(dim.hierarchy))
                  => \A p \in DOMAIN structure :
                        (Beneath(<<g, dim.type>>, p)
                           /\ Len(ItemLabels(p)) <= MAX_HIERARCHY_DEPTH)
                        => \A c \in ChildrenOf(dim, p) : Append(p, c) \in DOMAIN structure

\* X is a child of P and of Q and has the child Y: X and Y stand under both
C26_Witness ==
    /\ StructureReturned
    /\ \E g \in Range(dimensions.all_geographies) :
          \E i \in 1..Len(dimensions.segments) :
              LET dim == dimensions.segments[i]
              IN  /\ WellFormed(dim) /\ ~HasCycle(dim.hierarchy)
                  /\ {"P", "Q"} \subseteq DOMAIN dim.hierarchy
                  /\ "X" \in Range(dim.hierarchy["P"]) \cap Range(dim.hierarchy["Q"])
                  /\ <<g, dim.type, "P", "X", "Y">> \in DOMAIN structure
                  /\ <<g, dim.type, "Q", "X", "Y">> \in DOMAIN structure

\* C27: what an invocation hands back holds a node for every geography and
\* under it a node for every segment type; the node of a dimension without an
\* item list, without a hierarchy map or with an empty item list is empty, and
\* so is the node of an item to which the mapping gives no children.
C27_NodeForEveryGeographyAndSegmentType ==
    StructureFinished
    => LET result == StructureOutcome.result
       IN  \A g \in Range(dimensions.all_geographies) :
              /\ <<g>> \in DOMAIN result
              /\ \A i \in 1..Len(dimensions.segments) :
                    LET dim == dimensions.segments[i]
                        node == <<g, dim.type>>
                    IN  /\ node \in DOMAIN result /\ result[node] = Obj
                        /\ (~WellFormed(dim) \/ dim.items = <<>>)
                           => \A q \in DOMAIN result : ~Beneath(node, q)
                        /\ WellFormed(dim)
                           => /\ \A item \in Range(TopLevel(dim)) :
                                    Append(node, item) \in DOMAIN result
                              /\ \A p \in DOMAIN result :
                                    (Beneath(node, p) /\ ChildrenOf(dim, p) = {})
                                    => /\ result[p] = Obj
                                       /\ \A q \in DOMAIN result : ~Beneath(p, q)

\* C28: every truncated or skipped branch is reported: a processed record that
\* supplies more labels than the cap of rebuildTree has a warning issued, and a
\* child that rebuildStructure leaves out beneath a node of its structure has
\* one issued too.
C28_EveryHazardReported ==
    /\ (\E i \in 1..Len(treeRecords) : SuppliesMoreThanCap(treeRecords[i])) => treeWarned
    /\ StructureReturned
       => \A g \in Range(dimensions.all_geographies) :
             \A i \in 1..Len(dimensions.segments) :
                 LET dim == dimensions.segments[i]
                 IN  WellFormed(dim)
                     => \A p \in DOMAIN structure :
                           (Beneath(<<g, dim.type>>, p)
                              /\ \E c \in ChildrenOf(dim, p) : Append(p, c) \notin DOMAIN structure)
                           => structWarnings # {}

====
